---- MODULE Spec2Model ----
(***************************************************************************)
(* Model of lambda_function.py: the S3-upload handler that detects labels  *)
(* with Rekognition, requests a presigned URL, writes an item to DynamoDB  *)
(* and publishes an SNS notification.                                      *)
(*                                                                         *)
(* Python dicts that are iterated (labels_dict) are sequences of           *)
(* [k, v] entries in insertion order with unique keys; dicts that are only *)
(* indexed (put_dict, the event) are functions over their key set.         *)
(* A Rekognition confidence (a float) is an integer number of tenths:      *)
(* 982 stands for 98.2.                                                    *)
(***************************************************************************)
EXTENDS Integers, Sequences, FiniteSets, TLC

\* ---------------------------------------------------------------- bounds
NumInvocations == 2
MaxLabels == 2

\* ------------------------------------------------------------- constants
PRESIGNED_URL_EXPIRATION == 3600
OWNER == "richcolb"
DYNAMODB_TABLE == "env:DYNAMODB_TABLE"
SNS_TOPIC_ARN == "env:SNS_TOPIC_ARN"

Invocations == 1..NumInvocations
Processors == 1..NumInvocations

VARIABLES
    pc,             \* per invocation: the next step of process_image
    event,          \* per invocation: the payload lambda_handler received
    result,         \* per invocation: what lambda_handler returned / raised
    logs,           \* per invocation: the records it handed to the logger
    presigned_url,  \* per invocation: the local of process_image
    response,       \* per invocation: the Labels list Rekognition returned
    calls,          \* per invocation: the remote calls it made, in order
    processor,      \* per invocation: the ImageProcessor instance it uses
    bucket,         \* per ImageProcessor: self.bucket
    key,            \* per ImageProcessor: self.key
    labels_dict,    \* per ImageProcessor: the dict self.labels_dict refers to
    put_dict,       \* per ImageProcessor: self.put_dict
    ddb_items,      \* per invocation: the items its put_item calls persisted
    sns_messages    \* per invocation: the messages its publish calls delivered

vars == <<pc, event, result, logs, presigned_url, response, calls, processor,
          bucket, key, labels_dict, put_dict, ddb_items, sns_messages>>

\* ------------------------------------------------------------ input sets
LabelNames == {"Cat", "Pet"}
Confidences == {982, 760}

EmptyDict == [k \in {} |-> ""]
NoProcessor == 0
NoResult == [kind |-> "none", statusCode |-> 0, body |-> ""]

S3Record(b, k) == [s3 |-> [bucket |-> [name |-> b], object |-> [key |-> k]]]
UploadEvent(b, k) == [Records |-> <<S3Record(b, k)>>]

\* payloads from which the two fields cannot be extracted
MalformedEvents ==
    { [source |-> "aws.events"],
      [Records |-> <<>>],
      [Records |-> <<[eventSource |-> "aws:s3"]>>],
      [Records |-> <<[s3 |-> [object |-> [key |-> "cat.jpg"]]]>>],
      [Records |-> <<[s3 |-> [bucket |-> [arn |-> "arn:aws:s3:::photos"],
                              object |-> [key |-> "cat.jpg"]]]>>],
      [Records |-> <<[s3 |-> [bucket |-> [name |-> "photos"]]]>>],
      [Records |-> <<[s3 |-> [bucket |-> [name |-> "photos"],
                              object |-> [size |-> "1024"]]]>>] }

ValidEvents ==
    { UploadEvent("photos", "cat.jpg"), UploadEvent("docs", "dog.png"),
      [Records |-> <<S3Record("photos", "dog.png"), S3Record("docs", "cat.jpg")>>] }

Events == MalformedEvents \cup ValidEvents

Label(n, c) == [Name |-> n, Confidence |-> c]
LabelRecs == {Label(n, c) : n \in LabelNames, c \in Confidences}
Responses == UNION {[1..m -> LabelRecs] : m \in 0..MaxLabels}

\* the events and responses of the concurrent specification
ConcurrentEvents == {UploadEvent("photos", "cat.jpg"), UploadEvent("docs", "dog.png")}
ConcurrentResponses == {<<>>, <<Label("Cat", 982)>>, <<Label("Pet", 760)>>}

ErrorTypes == {"ClientError", "EndpointConnectionError"}
Outcomes == {"ok"} \cup ErrorTypes

\* -------------------------------------------------------------- exceptions
Error(type, desc) == [type |-> type, desc |-> desc]

\* the classes an exception type is an instance of
Bases(type) ==
    CASE type = "ClientError" -> {"ClientError", "Exception"}
      [] type = "EndpointConnectionError" ->
            {"EndpointConnectionError", "BotoCoreError", "Exception"}
      [] type = "KeyError" -> {"KeyError", "LookupError", "Exception"}
      [] type = "IndexError" -> {"IndexError", "LookupError", "Exception"}
      [] OTHER -> {type}

IsInstance(err, class) == class \in Bases(err.type)

\* str(e) of the error a remote operation raises
RemoteError(type, op) ==
    IF type = "ClientError"
    THEN Error(type, "An error occurred (AccessDenied) when calling the "
                     \o op \o " operation: Access Denied")
    ELSE Error(type, "Could not connect to the endpoint URL")

ErrorLog(msg) == [level |-> "ERROR", msg |-> msg, args |-> <<>>]
InfoLog(msg, arg) == [level |-> "INFO", msg |-> msg, args |-> <<arg>>]

\* json.dumps of a dict with one string entry
JsonDumps(k, v) == "{\"" \o k \o "\": \"" \o v \o "\"}"

Returned(code, body) == [kind |-> "returned", statusCode |-> code, body |-> body]
Raised(err) == [kind |-> "raised", statusCode |-> 0, body |-> err.desc]

\* `except ClientError as e: logger.error(f"<prefix>{str(e)}"); raise`
ExceptClientErrorNoLog(prefix, err, log) == log

ExceptClientError(prefix, err, log) ==
    IF IsInstance(err, "ClientError")
    THEN Append(log, ErrorLog(prefix \o err.desc))
    ELSE log

\* the class caught at the invocation boundary
HandlerCatchClassNarrow == "ClientError"

HandlerCatchClass == "Exception"

\* `except Exception as e:` of lambda_handler
HandlerExcept(err, log) ==
    IF IsInstance(err, HandlerCatchClass)
    THEN [logs |-> Append(log, ErrorLog("Error in lambda_handler: " \o err.desc)),
          result |-> Returned(500, JsonDumps("error", err.desc))]
    ELSE [logs |-> log, result |-> Raised(err)]

\* an error raised inside a step method: the method's except clause, then
\* process_image's, then lambda_handler's
Unwind(prefix, err, log) ==
    HandlerExcept(err,
        ExceptClientError("Error processing image: ", err,
            ExceptClientError(prefix, err, log)))

\* ------------------------------------------------------------ pure helpers
\* event["Records"][0]["s3"], record["bucket"]["name"], record["object"]["key"]
ExtractS3Lenient(ev) ==
    [ok |-> TRUE,
     bucket |-> IF "Records" \in DOMAIN ev /\ Len(ev.Records) > 0
                   /\ "s3" \in DOMAIN ev.Records[1]
                   /\ "bucket" \in DOMAIN ev.Records[1].s3
                   /\ "name" \in DOMAIN ev.Records[1].s3.bucket
                THEN ev.Records[1].s3.bucket.name ELSE "",
     key |-> IF "Records" \in DOMAIN ev /\ Len(ev.Records) > 0
                   /\ "s3" \in DOMAIN ev.Records[1]
                   /\ "object" \in DOMAIN ev.Records[1].s3
                   /\ "key" \in DOMAIN ev.Records[1].s3.object
                THEN ev.Records[1].s3.object.key ELSE ""]

ExtractS3(ev) ==
    IF "Records" \notin DOMAIN ev
    THEN [ok |-> FALSE, err |-> Error("KeyError", "'Records'")]
    ELSE IF Len(ev.Records) = 0
    THEN [ok |-> FALSE, err |-> Error("IndexError", "list index out of range")]
    ELSE IF "s3" \notin DOMAIN ev.Records[1]
    THEN [ok |-> FALSE, err |-> Error("KeyError", "'s3'")]
    ELSE LET record == ev.Records[1].s3 IN
         IF "bucket" \notin DOMAIN record
         THEN [ok |-> FALSE, err |-> Error("KeyError", "'bucket'")]
         ELSE IF "name" \notin DOMAIN record.bucket
         THEN [ok |-> FALSE, err |-> Error("KeyError", "'name'")]
         ELSE IF "object" \notin DOMAIN record
         THEN [ok |-> FALSE, err |-> Error("KeyError", "'object'")]
         ELSE IF "key" \notin DOMAIN record.object
         THEN [ok |-> FALSE, err |-> Error("KeyError", "'key'")]
         ELSE [ok |-> TRUE, bucket |-> record.bucket.name,
               key |-> record.object.key]

DisplayPathWrongRegion(b, k) == "https://" \o b \o ".s3.us-east-1.amazonaws.com/" \o k

DisplayPath(b, k) == "https://" \o b \o ".s3.eu-west-1.amazonaws.com/" \o k

\* str(float) of a confidence given in tenths
Str(c) == ToString(c \div 10) \o "." \o ToString(c % 10)

Entry(k, v) == [k |-> k, v |-> v]
DictKeys(d) == {d[j].k : j \in DOMAIN d}

\* d[k] = v on an insertion-ordered dict
DictSet(d, k, v) ==
    IF k \in DictKeys(d)
    THEN [j \in DOMAIN d |-> IF d[j].k = k THEN Entry(k, v) ELSE d[j]]
    ELSE Append(d, Entry(k, v))

RECURSIVE DictCompKeepFirst(_)
DictCompKeepFirst(labels) ==
    IF labels = <<>> THEN <<>>
    ELSE LET n == Len(labels)
             d == DictCompKeepFirst(SubSeq(labels, 1, n - 1))
         IN IF labels[n].Name \in DictKeys(d) THEN d
            ELSE Append(d, Entry(labels[n].Name, Str(labels[n].Confidence)))

\* {label["Name"]: str(label["Confidence"]) for label in response["Labels"]}
RECURSIVE DictComp(_)
DictComp(labels) ==
    IF labels = <<>> THEN <<>>
    ELSE LET n == Len(labels)
         IN DictSet(DictComp(SubSeq(labels, 1, n - 1)),
                    labels[n].Name, Str(labels[n].Confidence))

\* '\n'.join(f"{k}:{v}" for k, v in labels_dict.items())
RECURSIVE JoinLabels(_)
JoinLabels(d) ==
    IF d = <<>> THEN ""
    ELSE IF Len(d) = 1 THEN d[1].k \o ":" \o d[1].v
    ELSE d[1].k \o ":" \o d[1].v \o "\n" \o JoinLabels(Tail(d))

Message(b, k, labels_str, url) ==
    "A new object has arrived in the Amazon S3 bucket\n\n"
    \o "Bucket Name: " \o b \o "\n"
    \o "Object Name: " \o k \o "\n\n"
    \o "The detected labels are:\n" \o labels_str \o "\n\n"
    \o "You can view the image by clicking on the following URL:\n" \o url

\* the URL the S3 client signs for a get_object request
SignedUrl(b, k, expires) ==
    "https://" \o b \o ".s3.amazonaws.com/" \o k
    \o "?X-Amz-Expires=" \o ToString(expires) \o "&X-Amz-Signature=sig"

\* put_dict["labels"] holds a reference to the dict self.labels_dict refers to
LabelsRef == "ref:self.labels_dict"

\* what put_item serialises when it is handed self.put_dict
Item(p) ==
    [f \in DOMAIN put_dict[p] |->
        IF put_dict[p][f] = LabelsRef THEN labels_dict[p] ELSE put_dict[p][f]]

\* the ImageProcessor instance lambda_handler creates for an invocation
ProcessorOfShared(i) == 1

ProcessorOf(i) == i

\* the statement order of process_image
StepAfterWriteFirst(step) ==
    CASE step = "detect_labels" -> "write_to_ddb"
      [] step = "write_to_ddb" -> "generate_presigned_url"
      [] step = "generate_presigned_url" -> "send_to_sns"
      [] step = "send_to_sns" -> "return"

StepAfterNoWrite(step) ==
    CASE step = "detect_labels" -> "generate_presigned_url"
      [] step = "generate_presigned_url" -> "send_to_sns"
      [] step = "write_to_ddb" -> "send_to_sns"
      [] step = "send_to_sns" -> "return"

StepAfter(step) ==
    CASE step = "detect_labels" -> "generate_presigned_url"
      [] step = "generate_presigned_url" -> "write_to_ddb"
      [] step = "write_to_ddb" -> "send_to_sns"
      [] step = "send_to_sns" -> "return"

Call(op, params, outcome) == [op |-> op, params |-> params, outcome |-> outcome]

\* -------------------------------------------------------------------- Init
Init ==
    /\ pc = [i \in Invocations |-> "idle"]
    /\ event = [i \in Invocations |-> EmptyDict]
    /\ result = [i \in Invocations |-> NoResult]
    /\ logs = [i \in Invocations |-> <<>>]
    /\ presigned_url = [i \in Invocations |-> ""]
    /\ response = [i \in Invocations |-> <<>>]
    /\ calls = [i \in Invocations |-> <<>>]
    /\ processor = [i \in Invocations |-> NoProcessor]
    /\ bucket = [p \in Processors |-> ""]
    /\ key = [p \in Processors |-> ""]
    /\ labels_dict = [p \in Processors |-> <<>>]
    /\ put_dict = [p \in Processors |-> EmptyDict]
    /\ ddb_items = [i \in Invocations |-> <<>>]
    /\ sns_messages = [i \in Invocations |-> <<>>]

\* ----------------------------------------------------------------- actions
\* a step method returned normally: process_image goes on to its next
\* statement, which after send_to_sns is the return of the 200 response
Continue(i, step) ==
    IF StepAfter(step) = "return"
    THEN /\ pc' = [pc EXCEPT ![i] = "done"]
         /\ result' = [result EXCEPT ![i] =
                Returned(200, JsonDumps("message", "Image processed successfully"))]
    ELSE /\ pc' = [pc EXCEPT ![i] = StepAfter(step)]
         /\ UNCHANGED result

\* a step method raised err: the error unwinds to lambda_handler
Fail(i, prefix, err) ==
    LET h == Unwind(prefix, err, logs[i]) IN
    /\ pc' = [pc EXCEPT ![i] = "done"]
    /\ logs' = [logs EXCEPT ![i] = h.logs]
    /\ result' = [result EXCEPT ![i] = h.result]

\* lambda_handler up to the first remote call: log the event, extract the
\* fields, construct the ImageProcessor, enter process_image and set the
\* image path and the owner
lambda_handler(i, ev) ==
    LET x == ExtractS3(ev)
        l0 == Append(logs[i], InfoLog("Processing event: %s", ev))
    IN /\ pc[i] = "idle"
       /\ event' = [event EXCEPT ![i] = ev]
       /\ IF x.ok
          THEN LET p == ProcessorOf(i) IN
               /\ logs' = [logs EXCEPT ![i] = l0]
               /\ processor' = [processor EXCEPT ![i] = p]
               /\ bucket' = [bucket EXCEPT ![p] = x.bucket]
               /\ key' = [key EXCEPT ![p] = x.key]
               /\ labels_dict' = [labels_dict EXCEPT ![p] = <<>>]
               /\ put_dict' = [put_dict EXCEPT ![p] =
                      [f \in {"image_path", "owner"} |->
                          IF f = "owner" THEN OWNER
                          ELSE DisplayPath(x.bucket, x.key)]]
               /\ pc' = [pc EXCEPT ![i] = "detect_labels"]
               /\ UNCHANGED result
          ELSE LET h == HandlerExcept(x.err, l0) IN
               /\ logs' = [logs EXCEPT ![i] = h.logs]
               /\ result' = [result EXCEPT ![i] = h.result]
               /\ pc' = [pc EXCEPT ![i] = "done"]
               /\ UNCHANGED <<processor, bucket, key, labels_dict, put_dict>>
       /\ UNCHANGED <<presigned_url, response, calls, ddb_items, sns_messages>>

\* put_dict[f] = v
DictPut(d, f, v) == [g \in DOMAIN d \cup {f} |-> IF g = f THEN v ELSE d[g]]

\* detect_labels that swallows the error of the remote call
detect_labels_swallow(i, resp, outcome) ==
    LET p == processor[i] IN
    /\ pc[i] = "detect_labels"
    /\ calls' = [calls EXCEPT ![i] = Append(@,
           Call("rekognition.detect_labels",
                [Bucket |-> bucket[p], Name |-> key[p]], outcome))]
    /\ IF outcome = "ok"
       THEN /\ response' = [response EXCEPT ![i] = resp]
            /\ labels_dict' = [labels_dict EXCEPT ![p] = DictComp(resp)]
            /\ put_dict' = [put_dict EXCEPT ![p] = DictPut(@, "labels", LabelsRef)]
            /\ UNCHANGED logs
       ELSE /\ logs' = [logs EXCEPT ![i] = Append(@, ErrorLog("Error detecting labels: "
                           \o RemoteError(outcome, "DetectLabels").desc))]
            /\ UNCHANGED <<response, labels_dict, put_dict>>
    /\ Continue(i, "detect_labels")
    /\ UNCHANGED <<event, presigned_url, processor, bucket, key, ddb_items, sns_messages>>

detect_labels(i, resp, outcome) ==
    LET p == processor[i] IN
    /\ pc[i] = "detect_labels"
    /\ calls' = [calls EXCEPT ![i] = Append(@,
           Call("rekognition.detect_labels",
                [Bucket |-> bucket[p], Name |-> key[p]], outcome))]
    /\ IF outcome = "ok"
       THEN /\ response' = [response EXCEPT ![i] = resp]
            /\ labels_dict' = [labels_dict EXCEPT ![p] = DictComp(resp)]
            /\ put_dict' = [put_dict EXCEPT ![p] = DictPut(@, "labels", LabelsRef)]
            /\ Continue(i, "detect_labels")
            /\ UNCHANGED logs
       ELSE /\ Fail(i, "Error detecting labels: ", RemoteError(outcome, "DetectLabels"))
            /\ UNCHANGED <<response, labels_dict, put_dict>>
    /\ UNCHANGED <<event, presigned_url, processor, bucket, key, ddb_items, sns_messages>>

generate_presigned_url(i, outcome) ==
    LET p == processor[i] IN
    /\ pc[i] = "generate_presigned_url"
    /\ calls' = [calls EXCEPT ![i] = Append(@,
           Call("s3.generate_presigned_url",
                [ClientMethod |-> "get_object", Bucket |-> bucket[p], Key |-> key[p],
                 ExpiresIn |-> PRESIGNED_URL_EXPIRATION], outcome))]
    /\ IF outcome = "ok"
       THEN /\ presigned_url' = [presigned_url EXCEPT ![i] =
                   SignedUrl(bucket[p], key[p], PRESIGNED_URL_EXPIRATION)]
            /\ Continue(i, "generate_presigned_url")
            /\ UNCHANGED logs
       ELSE /\ Fail(i, "Error generating presigned URL: ",
                    RemoteError(outcome, "GeneratePresignedUrl"))
            /\ UNCHANGED presigned_url
    /\ UNCHANGED <<event, response, processor, bucket, key, labels_dict, put_dict,
                   ddb_items, sns_messages>>

write_to_ddb(i, outcome) ==
    LET p == processor[i] IN
    /\ pc[i] = "write_to_ddb"
    /\ calls' = [calls EXCEPT ![i] = Append(@,
           Call("dynamodb.put_item",
                [TableName |-> DYNAMODB_TABLE, Item |-> Item(p)], outcome))]
    /\ IF outcome = "ok"
       THEN /\ ddb_items' = [ddb_items EXCEPT ![i] = Append(@, Item(p))]
            /\ Continue(i, "write_to_ddb")
            /\ UNCHANGED logs
       ELSE /\ Fail(i, "Error writing to DynamoDB: ", RemoteError(outcome, "PutItem"))
            /\ UNCHANGED ddb_items
    /\ UNCHANGED <<event, presigned_url, response, processor, bucket, key,
                   labels_dict, put_dict, sns_messages>>

\* send_to_sns whose cleanup is not in a finally clause
send_to_sns_no_finally(i, outcome) ==
    LET p == processor[i]
        message == Message(bucket[p], key[p], JoinLabels(labels_dict[p]),
                           presigned_url[i])
    IN
    /\ pc[i] = "send_to_sns"
    /\ calls' = [calls EXCEPT ![i] = Append(@,
           Call("sns.publish",
                [TopicArn |-> SNS_TOPIC_ARN, Message |-> message,
                 Subject |-> "New object detected labels"], outcome))]
    /\ IF outcome = "ok"
       THEN /\ sns_messages' = [sns_messages EXCEPT ![i] = Append(@, message)]
            /\ labels_dict' = [labels_dict EXCEPT ![p] = <<>>]
            /\ put_dict' = [put_dict EXCEPT ![p] = EmptyDict]
            /\ Continue(i, "send_to_sns")
            /\ UNCHANGED logs
       ELSE /\ Fail(i, "Error sending SNS notification: ", RemoteError(outcome, "Publish"))
            /\ UNCHANGED <<sns_messages, labels_dict, put_dict>>
    /\ UNCHANGED <<event, presigned_url, response, processor, bucket, key, ddb_items>>

send_to_sns(i, outcome) ==
    LET p == processor[i]
        message == Message(bucket[p], key[p], JoinLabels(labels_dict[p]),
                           presigned_url[i])
    IN
    /\ pc[i] = "send_to_sns"
    /\ calls' = [calls EXCEPT ![i] = Append(@,
           Call("sns.publish",
                [TopicArn |-> SNS_TOPIC_ARN, Message |-> message,
                 Subject |-> "New object detected labels"], outcome))]
    /\ IF outcome = "ok"
       THEN /\ sns_messages' = [sns_messages EXCEPT ![i] = Append(@, message)]
            /\ Continue(i, "send_to_sns")
            /\ UNCHANGED logs
       ELSE /\ Fail(i, "Error sending SNS notification: ", RemoteError(outcome, "Publish"))
            /\ UNCHANGED sns_messages
    \* finally: self.labels_dict.clear(); self.put_dict.clear()
    /\ labels_dict' = [labels_dict EXCEPT ![p] = <<>>]
    /\ put_dict' = [put_dict EXCEPT ![p] = EmptyDict]
    /\ UNCHANGED <<event, presigned_url, response, processor, bucket, key, ddb_items>>

\* ---------------------------------------------------------- specifications
\* one invocation, any payload, any Rekognition response
Next ==
    \E i \in {1} :
        \/ \E ev \in Events : lambda_handler(i, ev)
        \/ \E resp \in Responses, o \in Outcomes : detect_labels(i, resp, o)
        \/ \E o \in Outcomes : generate_presigned_url(i, o)
        \/ \E o \in Outcomes : write_to_ddb(i, o)
        \/ \E o \in Outcomes : send_to_sns(i, o)

Spec == Init /\ [][Next]_vars

\* NumInvocations invocations of upload events whose steps interleave
NextConcurrent ==
    \E i \in Invocations :
        \/ \E ev \in ConcurrentEvents : lambda_handler(i, ev)
        \/ \E resp \in ConcurrentResponses, o \in Outcomes : detect_labels(i, resp, o)
        \/ \E o \in Outcomes : generate_presigned_url(i, o)
        \/ \E o \in Outcomes : write_to_ddb(i, o)
        \/ \E o \in Outcomes : send_to_sns(i, o)

SpecConcurrent == Init /\ [][NextConcurrent]_vars

\* ------------------------------------------------------ claims: vocabulary
Done(i) == pc[i] = "done"
Last(s) == s[Len(s)]
Order == <<"rekognition.detect_labels", "s3.generate_presigned_url",
           "dynamodb.put_item", "sns.publish">>
EventBucket(i) == event[i].Records[1].s3.bucket.name
EventKey(i) == event[i].Records[1].s3.object.key
SuccessBody == "{\"message\": \"Image processed successfully\"}"
ErrorBody(desc) == "{\"error\": \"" \o desc \o "\"}"
ExtractionBodies ==
    { ErrorBody("'Records'"), ErrorBody("list index out of range"), ErrorBody("'s3'"),
      ErrorBody("'bucket'"), ErrorBody("'name'"), ErrorBody("'object'"),
      ErrorBody("'key'") }
ApiName(op) ==
    CASE op = "rekognition.detect_labels" -> "DetectLabels"
      [] op = "s3.generate_presigned_url" -> "GeneratePresignedUrl"
      [] op = "dynamodb.put_item" -> "PutItem"
      [] op = "sns.publish" -> "Publish"
StepPrefix(op) ==
    CASE op = "rekognition.detect_labels" -> "Error detecting labels: "
      [] op = "s3.generate_presigned_url" -> "Error generating presigned URL: "
      [] op = "dynamodb.put_item" -> "Error writing to DynamoDB: "
      [] op = "sns.publish" -> "Error sending SNS notification: "
ConfidenceText(c) == CASE c = 982 -> "98.2" [] c = 760 -> "76.0"
AllSucceeded(i) ==
    /\ event[i] \in ValidEvents
    /\ Len(calls[i]) = 4
    /\ \A j \in 1..4 : calls[i][j].op = Order[j] /\ calls[i][j].outcome = "ok"
LastCallFailed(i) == calls[i] # <<>> /\ Last(calls[i]).outcome # "ok"
FailureDesc(i) == RemoteError(Last(calls[i]).outcome, ApiName(Last(calls[i]).op)).desc
ErrorLogs(i) == SelectSeq(logs[i], LAMBDA l : l.level = "ERROR")

\* ---------------------------------------------------------------------- C1
\* C1: a finished invocation has always returned (the error never escapes);
\* it returned 200 with the fixed success body exactly when field extraction
\* and the four remote steps all succeeded, and otherwise 500 with a body
\* carrying the description of the error that occurred.
C1_StatusIffAllSucceeded ==
    \A i \in Invocations :
        /\ ~Done(i) => result[i] = NoResult
        /\ Done(i) =>
            /\ result[i].kind = "returned"
            /\ (result[i] = Returned(200, SuccessBody)) <=> AllSucceeded(i)
            /\ ~AllSucceeded(i) =>
                /\ result[i].statusCode = 500
                /\ IF calls[i] = <<>>
                   THEN result[i].body \in ExtractionBodies
                   ELSE /\ LastCallFailed(i)
                        /\ result[i].body = ErrorBody(FailureDesc(i))

C1_Witness ==
    \E i \in Invocations :
        /\ Done(i) /\ result[i].statusCode = 500
        /\ Len(calls[i]) = 4
        /\ Last(calls[i]).outcome = "EndpointConnectionError"

\* ---------------------------------------------------------------------- C2
\* C2: a payload with no records, or whose first record lacks the bucket
\* name or the object key, is answered with 500 and a non-empty error
\* description, and no remote call is made for it.
C2_MalformedNoRemoteCall ==
    \A i \in Invocations :
        (pc[i] # "idle" /\ event[i] \in MalformedEvents) =>
            /\ Done(i)
            /\ result[i].kind = "returned" /\ result[i].statusCode = 500
            /\ Len(result[i].body) > Len(ErrorBody(""))
            /\ result[i].body \in ExtractionBodies
            /\ calls[i] = <<>>
            /\ ddb_items[i] = <<>> /\ sns_messages[i] = <<>>
            /\ presigned_url[i] = ""

C2_Witness ==
    \E i \in Invocations :
        /\ Done(i) /\ event[i] = [Records |-> <<>>]
        /\ result[i].body = ErrorBody("list index out of range")

\* ---------------------------------------------------------------------- C3
\* C3: when the label-detection call raises, the invocation is over with
\* status 500, nothing was written to the record store, nothing was
\* published, and no further remote call was made.
C3_DetectFailureAborts ==
    \A i \in Invocations :
        (calls[i] # <<>> /\ calls[i][1].op = "rekognition.detect_labels"
            /\ calls[i][1].outcome # "ok") =>
            /\ Done(i)
            /\ result[i].kind = "returned" /\ result[i].statusCode = 500
            /\ Len(calls[i]) = 1
            /\ ddb_items[i] = <<>> /\ sns_messages[i] = <<>>

C3_Witness ==
    \E i \in Invocations :
        /\ Done(i) /\ Len(calls[i]) = 1
        /\ calls[i][1].op = "rekognition.detect_labels"
        /\ calls[i][1].outcome = "ClientError"
        /\ result[i].statusCode = 500

\* ---------------------------------------------------------------------- C4
\* C4 as stated: once an invocation on an upload event has returned, it has
\* written exactly one record.
C4_ExactlyOneWrite ==
    \A i \in Invocations :
        (Done(i) /\ event[i] \in ValidEvents) => Len(ddb_items[i]) = 1

\* C4 amended: an invocation never writes more than one record; once it has
\* returned it has written exactly one if detection, URL generation and the
\* write all succeeded (so whenever it returns 200) and none otherwise.
C4_AtMostOneWrite ==
    \A i \in Invocations :
        /\ Len(ddb_items[i]) <= 1
        /\ Cardinality({j \in DOMAIN calls[i] : calls[i][j].op = "dynamodb.put_item"}) <= 1
        /\ Done(i) =>
            /\ result[i].statusCode = 200 => Len(ddb_items[i]) = 1
            /\ Len(ddb_items[i]) =
                  IF Len(calls[i]) >= 3 /\ \A j \in 1..3 : calls[i][j].outcome = "ok"
                  THEN 1 ELSE 0

C4_Witness ==
    \E i \in Invocations :
        Done(i) /\ result[i].statusCode = 200 /\ Len(ddb_items[i]) = 1

\* ---------------------------------------------------------------------- C5
\* C5: once send_to_sns has run, labels_dict and put_dict are both empty,
\* whether the publish call returned or raised.
C5_ClearedAfterPublish ==
    \A i \in Invocations :
        (\E j \in DOMAIN calls[i] : calls[i][j].op = "sns.publish") =>
            /\ labels_dict[processor[i]] = <<>>
            /\ DOMAIN put_dict[processor[i]] = {}

C5_Witness ==
    \E i \in Invocations :
        /\ calls[i] # <<>> /\ Last(calls[i]).op = "sns.publish"
        /\ Last(calls[i]).outcome = "ClientError"
        /\ response[i] # <<>>
        /\ labels_dict[processor[i]] = <<>>

\* ---------------------------------------------------------------------- C6
LabelsBuilt(i) ==
    pc[i] \in {"generate_presigned_url", "write_to_ddb", "send_to_sns"}

\* C6 as stated: the LabelSet built by detect_labels has exactly one entry
\* per returned label, mapping its name to the text of its confidence.
C6_OneEntryPerLabel ==
    \A i \in Invocations :
        LabelsBuilt(i) =>
            LET d == labels_dict[processor[i]] IN
            /\ Len(d) = Len(response[i])
            /\ \A j \in DOMAIN response[i] :
                  \E m \in DOMAIN d :
                      /\ d[m].k = response[i][j].Name
                      /\ d[m].v = ConfidenceText(response[i][j].Confidence)

\* C6 amended: the LabelSet has exactly one entry per distinct returned
\* label name, in the order of first appearance, mapping the name to the
\* text of the confidence of the last returned label with that name.
C6_OneEntryPerName ==
    \A i \in Invocations :
        LabelsBuilt(i) =>
            LET d == labels_dict[processor[i]]
                r == response[i]
                names == {r[j].Name : j \in DOMAIN r}
                first(n) == CHOOSE j \in DOMAIN r :
                    r[j].Name = n /\ \A h \in 1..(j - 1) : r[h].Name # n
                last(n) == CHOOSE j \in DOMAIN r :
                    r[j].Name = n /\ \A h \in (j + 1)..Len(r) : r[h].Name # n
            IN /\ Len(d) = Cardinality(names)
               /\ DictKeys(d) = names
               /\ \A m \in DOMAIN d :
                     d[m].v = ConfidenceText(r[last(d[m].k)].Confidence)
               /\ \A m, n \in DOMAIN d :
                     m < n => first(d[m].k) < first(d[n].k)
               /\ (Cardinality(names) = Len(r)) => Len(d) = Len(r)

C6_Witness ==
    \E i \in Invocations :
        /\ LabelsBuilt(i)
        /\ response[i] = <<Label("Cat", 982), Label("Cat", 760)>>
        /\ labels_dict[processor[i]] = <<Entry("Cat", "76.0")>>

\* ---------------------------------------------------------------------- C7
OwnPath(i) == "https://" \o EventBucket(i) \o ".s3.eu-west-1.amazonaws.com/" \o EventKey(i)
OwnUrl(i) ==
    "https://" \o EventBucket(i) \o ".s3.amazonaws.com/" \o EventKey(i)
    \o "?X-Amz-Expires=3600&X-Amz-Signature=sig"
\* the LabelSet of a response whose label names are pairwise distinct
OwnLabels(i) ==
    [j \in DOMAIN response[i] |->
        Entry(response[i][j].Name, ConfidenceText(response[i][j].Confidence))]
OwnItem(i) == [image_path |-> OwnPath(i), owner |-> "richcolb", labels |-> OwnLabels(i)]
OwnMessage(i) ==
    Message(EventBucket(i), EventKey(i), JoinLabels(OwnLabels(i)), OwnUrl(i))

\* C7: under every interleaving of concurrent invocations, each invocation
\* has an ImageProcessor of its own; what it persists and publishes is built
\* from its own event and its own detection response only, and until its own
\* send_to_sns runs its labels_dict and put_dict keep its own content,
\* whatever cleanup the other invocations perform.
C7_InvocationLocalState ==
    \A i \in Invocations :
        /\ \A h \in Invocations :
              (h # i /\ processor[i] # NoProcessor) => processor[h] # processor[i]
        /\ \A j \in DOMAIN ddb_items[i] : ddb_items[i][j] = OwnItem(i)
        /\ \A j \in DOMAIN sns_messages[i] : sns_messages[i][j] = OwnMessage(i)
        /\ \A j \in DOMAIN calls[i] :
              /\ calls[i][j].op \in {"rekognition.detect_labels", "s3.generate_presigned_url"}
                    => calls[i][j].params.Bucket = EventBucket(i)
              /\ calls[i][j].op = "dynamodb.put_item" => calls[i][j].params.Item = OwnItem(i)
              /\ calls[i][j].op = "sns.publish" => calls[i][j].params.Message = OwnMessage(i)
        /\ pc[i] = "detect_labels" =>
              /\ labels_dict[processor[i]] = <<>>
              /\ put_dict[processor[i]] = [image_path |-> OwnPath(i), owner |-> "richcolb"]
        /\ LabelsBuilt(i) =>
              /\ labels_dict[processor[i]] = OwnLabels(i)
              /\ put_dict[processor[i]] =
                    [image_path |-> OwnPath(i), owner |-> "richcolb", labels |-> LabelsRef]

C7_Witness ==
    \E i, h \in Invocations :
        /\ i # h /\ event[i] # event[h]
        /\ Done(i) /\ result[i].statusCode = 200
        /\ pc[h] = "send_to_sns"
        /\ response[h] # <<>> /\ response[h] # response[i]
        /\ labels_dict[processor[h]] = OwnLabels(h)
        /\ labels_dict[processor[i]] = <<>>

C9_FixedOrderNoRetry ==
    \A i \in Invocations :
        /\ Len(calls[i]) <= 4
        /\ \A j \in DOMAIN calls[i] : calls[i][j].op = Order[j]
        /\ \A j \in 1..(Len(calls[i]) - 1) : calls[i][j].outcome = "ok"
        /\ LastCallFailed(i) => Done(i) /\ result[i].statusCode = 500
        /\ pc[i] \in {"detect_labels", "generate_presigned_url", "write_to_ddb",
                      "send_to_sns"} =>
              /\ ~LastCallFailed(i)
              /\ Len(calls[i]) < 4
              /\ pc[i] = CASE Len(calls[i]) = 0 -> "detect_labels"
                           [] Len(calls[i]) = 1 -> "generate_presigned_url"
                           [] Len(calls[i]) = 2 -> "write_to_ddb"
                           [] Len(calls[i]) = 3 -> "send_to_sns"
        /\ (Len(calls[i]) >= 3 /\ calls[i][3].outcome = "ok") =>
              ddb_items[i] = <<calls[i][3].params.Item>>

C9_Witness ==
    \E i \in Invocations :
        /\ Done(i) /\ result[i].statusCode = 500
        /\ Len(calls[i]) = 4 /\ Last(calls[i]).outcome # "ok"
        /\ Len(ddb_items[i]) = 1
        /\ sns_messages[i] = <<>>

\* --------------------------------------------------------------------- C10
\* C10: on a successful invocation the one record handed to the record
\* store has exactly the fields image_path, owner and labels: the eu-west-1
\* template applied to the event's bucket and key, "richcolb", and the
\* whole LabelSet built from the detection response (still there after the
\* cleanup); the signed URL in the notification was requested for the same
\* bucket and key.
C10_PersistedRecord ==
    \A i \in Invocations :
        (Done(i) /\ result[i].statusCode = 200) =>
            /\ Len(ddb_items[i]) = 1
            /\ DOMAIN ddb_items[i][1] = {"image_path", "owner", "labels"}
            /\ ddb_items[i][1].image_path = OwnPath(i)
            /\ ddb_items[i][1].owner = "richcolb"
            /\ ddb_items[i][1].labels = DictComp(response[i])
            /\ Len(ddb_items[i][1].labels) = Cardinality({response[i][j].Name : j \in DOMAIN response[i]})
            /\ calls[i][3].params.Item = ddb_items[i][1]
            /\ calls[i][2].params =
                  [ClientMethod |-> "get_object", Bucket |-> EventBucket(i),
                   Key |-> EventKey(i), ExpiresIn |-> 3600]
            /\ presigned_url[i] = OwnUrl(i)
            /\ sns_messages[i] =
                  <<Message(EventBucket(i), EventKey(i),
                            JoinLabels(ddb_items[i][1].labels), OwnUrl(i))>>

C10_Witness ==
    \E i \in Invocations :
        /\ Done(i) /\ result[i].statusCode = 200
        /\ event[i] = UploadEvent("photos", "cat.jpg")
        /\ response[i] = <<Label("Cat", 982)>>
        /\ ddb_items[i] = <<[image_path |-> "https://photos.s3.eu-west-1.amazonaws.com/cat.jpg",
                             owner |-> "richcolb",
                             labels |-> <<Entry("Cat", "98.2")>>]>>
        /\ labels_dict[processor[i]] = <<>>

====
